---- MODULE Spec2Model ----
(***************************************************************************)
(* Model of lib/department.py: the Department class mapped onto the        *)
(* SQLite table "departments" through the shared CURSOR / CONN pair.       *)
(*                                                                         *)
(* Every method executes one statement and commits at once on the single   *)
(* shared connection, so the committed table is the only store state; a    *)
(* statement that raises (sqlite3.OperationalError: no such table) leaves  *)
(* the store as it was and the method's remaining lines do not run.        *)
(***************************************************************************)
EXTENDS Integers, FiniteSets, Sequences, TLC

\* ---- bounds ------------------------------------------------------------
MaxInst == 2        \* Department objects constructed in one run
MaxId   == 2        \* largest rowid handed out in one run

\* Python None (id of an unsaved object; initial CURSOR.lastrowid).
\* SQLite rowids of this table start at 1, so 0 is never a row's id.
None == 0

\* the (name, location) values the program's callers pass in
Depts == {<<"Payroll", "Building A">>, <<"HR", "Building C">>}
Insts     == 1..MaxInst
Ids       == 1..MaxId

VARIABLES
    tableExists,    \* the departments table is present in the database
    rows,           \* id -> [name, location, by]: the table's rows; "by" is
                    \* a history field, the object whose save() inserted it
    lastrowid,      \* CURSOR.lastrowid
    inst,           \* the Department objects: alive, id, name, location and
                    \* the history field "assigned" (save() has set the id)
    lastCreatedId,  \* history: id given by the latest successful save() with
                    \* no delete() / drop_table() call after it, else None
    call            \* the latest call: method, object, raised or returned

vars == <<tableExists, rows, lastrowid, inst, lastCreatedId, call>>

NoRows == [r \in {} |-> [name |-> "", location |-> "", by |-> 0]]

Unborn == [alive |-> FALSE, id |-> None, name |-> "", location |-> "",
           assigned |-> FALSE]

Max(S) == CHOOSE m \in S : \A x \in S : x <= m

\* id INTEGER PRIMARY KEY (no AUTOINCREMENT): an INSERT that does not name
\* the id gets 1 in an empty table and otherwise largest id + 1.
NextRowidStuck(rs) == IF DOMAIN rs = {} THEN 1 ELSE Max(DOMAIN rs)

NextRowid(rs) == IF DOMAIN rs = {} THEN 1 ELSE Max(DOMAIN rs) + 1

\* INSERT INTO departments (name, location) VALUES (?, ?)
InsertRow(rs, n, l, by) ==
    LET new == NextRowid(rs)
    IN  [r \in DOMAIN rs \cup {new} |->
            IF r = new THEN [name |-> n, location |-> l, by |-> by]
            ELSE rs[r]]

\* UPDATE departments SET name = ?, location = ? WHERE id = ?
UpdateRowAll(rs, n, l, id) ==
    [r \in DOMAIN rs |-> [rs[r] EXCEPT !.name = n, !.location = l]]

UpdateRowUpsert(rs, n, l, id) ==
    [r \in DOMAIN rs \cup {id} |->
        IF r = id
        THEN [name |-> n, location |-> l,
              by |-> IF r \in DOMAIN rs THEN rs[r].by ELSE 0]
        ELSE rs[r]]

UpdateRow(rs, n, l, id) ==
    [r \in DOMAIN rs |->
        IF r = id THEN [rs[r] EXCEPT !.name = n, !.location = l] ELSE rs[r]]

\* DELETE FROM departments WHERE id = ?
DeleteRowAll(rs, id) == NoRows

DeleteRow(rs, id) == [r \in DOMAIN rs \ {id} |-> rs[r]]

\* Department(name, location, id=None)
Construct(insts, i, n, l, id) ==
    [insts EXCEPT ![i] = [alive |-> TRUE, id |-> id, name |-> n,
                          location |-> l, assigned |-> FALSE]]

\* the next object to be constructed
NextSlot == IF \E i \in Insts : ~inst[i].alive
            THEN CHOOSE i \in Insts : ~inst[i].alive /\
                                      \A j \in Insts : j < i => inst[j].alive
            ELSE None

Init ==
    /\ tableExists = FALSE
    /\ rows = NoRows
    /\ lastrowid = None
    /\ inst = [i \in Insts |-> Unborn]
    /\ lastCreatedId = None
    /\ call = [op |-> "none", self |-> 0, raised |-> FALSE]

\* CREATE TABLE IF NOT EXISTS departments (...); commit
create_table_fresh ==
    /\ tableExists' = TRUE
    /\ rows' = NoRows
    /\ call' = [op |-> "create_table", self |-> 0, raised |-> FALSE]
    /\ UNCHANGED <<lastrowid, inst, lastCreatedId>>

create_table ==
    /\ tableExists' = TRUE
    /\ rows' = rows
    /\ call' = [op |-> "create_table", self |-> 0, raised |-> FALSE]
    /\ UNCHANGED <<lastrowid, inst, lastCreatedId>>

\* DROP TABLE IF EXISTS departments; commit
drop_table_strict ==
    /\ tableExists' = FALSE
    /\ rows' = NoRows
    /\ call' = [op |-> "drop_table", self |-> 0, raised |-> ~tableExists]
    /\ lastCreatedId' = None
    /\ UNCHANGED <<lastrowid, inst>>

drop_table ==
    /\ tableExists' = FALSE
    /\ rows' = NoRows
    /\ call' = [op |-> "drop_table", self |-> 0, raised |-> FALSE]
    /\ lastCreatedId' = None
    /\ UNCHANGED <<lastrowid, inst>>

\* Department.__init__ called by the program with an explicit or default id
Department(n, l, id) ==
    /\ NextSlot # None
    /\ inst' = Construct(inst, NextSlot, n, l, id)
    /\ call' = [op |-> "init", self |-> NextSlot, raised |-> FALSE]
    /\ UNCHANGED <<tableExists, rows, lastrowid, lastCreatedId>>

\* attribute assignment: department.name = n; department.location = l
SetAttrs(i, n, l) ==
    /\ inst[i].alive
    /\ inst' = [inst EXCEPT ![i].name = n, ![i].location = l]
    /\ call' = [op |-> "set", self |-> i, raised |-> FALSE]
    /\ UNCHANGED <<tableExists, rows, lastrowid, lastCreatedId>>

\* save() run on object i of the object map insts (inst itself for a direct
\* call, inst plus the new object for create()).  A missing table makes
\* execute raise before commit and before self.id is assigned.
SaveOnNoAssign(insts, i, opname) ==
    IF ~tableExists
    THEN /\ call' = [op |-> opname, self |-> i, raised |-> TRUE]
         /\ UNCHANGED <<tableExists, rows, lastrowid, inst, lastCreatedId>>
    ELSE /\ NextRowid(rows) <= MaxId
         /\ rows' = InsertRow(rows, insts[i].name, insts[i].location, i)
         /\ lastrowid' = NextRowid(rows)
         /\ inst' = insts
         /\ lastCreatedId' = lastrowid'
         /\ call' = [op |-> opname, self |-> i, raised |-> FALSE]
         /\ UNCHANGED tableExists

SaveOnSwallow(insts, i, opname) ==
    IF ~tableExists
    THEN /\ call' = [op |-> opname, self |-> i, raised |-> FALSE]
         /\ inst' = [insts EXCEPT ![i].id = lastrowid]
         /\ UNCHANGED <<tableExists, rows, lastrowid, lastCreatedId>>
    ELSE /\ NextRowid(rows) <= MaxId
         /\ rows' = InsertRow(rows, insts[i].name, insts[i].location, i)
         /\ lastrowid' = NextRowid(rows)
         /\ inst' = [insts EXCEPT ![i].id = lastrowid', ![i].assigned = TRUE]
         /\ lastCreatedId' = lastrowid'
         /\ call' = [op |-> opname, self |-> i, raised |-> FALSE]
         /\ UNCHANGED tableExists

SaveOn(insts, i, opname) ==
    IF ~tableExists
    THEN /\ call' = [op |-> opname, self |-> i, raised |-> TRUE]
         /\ UNCHANGED <<tableExists, rows, lastrowid, inst, lastCreatedId>>
    ELSE /\ NextRowid(rows) <= MaxId
         /\ rows' = InsertRow(rows, insts[i].name, insts[i].location, i)
         /\ lastrowid' = NextRowid(rows)
         /\ inst' = [insts EXCEPT ![i].id = lastrowid', ![i].assigned = TRUE]
         /\ lastCreatedId' = lastrowid'
         /\ call' = [op |-> opname, self |-> i, raised |-> FALSE]
         /\ UNCHANGED tableExists

save(i) ==
    /\ inst[i].alive
    /\ SaveOn(inst, i, "save")

\* department = Department(name, location); department.save(); return it.
\* When save() raises, the new object is never returned to the caller.
create(n, l) ==
    /\ NextSlot # None
    /\ SaveOn(Construct(inst, NextSlot, n, l, None), NextSlot, "create")

\* UPDATE ... WHERE id = self.id; commit.  WHERE id = NULL matches no row.
update(i) ==
    /\ inst[i].alive
    /\ IF ~tableExists
       THEN /\ call' = [op |-> "update", self |-> i, raised |-> TRUE]
            /\ UNCHANGED rows
       ELSE /\ rows' = UpdateRow(rows, inst[i].name, inst[i].location,
                                 inst[i].id)
            /\ call' = [op |-> "update", self |-> i, raised |-> FALSE]
    /\ UNCHANGED <<tableExists, lastrowid, inst, lastCreatedId>>

\* DELETE ... WHERE id = self.id; commit.  The object is left as it is.
delete(i) ==
    /\ inst[i].alive
    /\ IF ~tableExists
       THEN /\ call' = [op |-> "delete", self |-> i, raised |-> TRUE]
            /\ UNCHANGED rows
       ELSE /\ rows' = DeleteRow(rows, inst[i].id)
            /\ call' = [op |-> "delete", self |-> i, raised |-> FALSE]
    /\ lastCreatedId' = None
    /\ UNCHANGED <<tableExists, lastrowid, inst>>

Next ==
    \/ create_table
    \/ drop_table
    \/ \E d \in Depts, id \in {None} \cup Ids : Department(d[1], d[2], id)
    \/ \E i \in Insts, d \in Depts : SetAttrs(i, d[1], d[2])
    \/ \E i \in Insts : save(i)
    \/ \E d \in Depts : create(d[1], d[2])
    \/ \E i \in Insts : update(i)
    \/ \E i \in Insts : delete(i)

Spec == Init /\ [][Next]_vars

\* ---- properties -------------------------------------------------------
\* Every action records itself in call', so on a step that changes the state
\* call' names the method that ran, the object it ran on and its outcome.

IsSave  == call'.op \in {"save", "create"}
Self    == call'.self
OwnId   == inst[call'.self].id

\* C1: with the table present, save() / create() returns normally, leaves the
\* object with a non-null id, adds exactly one row, whose (id, name,
\* location) is the object's, and changes no row that was there before.
C1_SaveInsertsMatchingRow ==
    [][(IsSave /\ tableExists) =>
          /\ ~call'.raised
          /\ inst'[Self].alive
          /\ inst'[Self].id # None
          /\ inst'[Self].id \notin DOMAIN rows
          /\ DOMAIN rows' = DOMAIN rows \cup {inst'[Self].id}
          /\ rows'[inst'[Self].id].name = inst'[Self].name
          /\ rows'[inst'[Self].id].location = inst'[Self].location
          /\ \A r \in DOMAIN rows : rows'[r] = rows[r]]_vars

C1_Witness ==
    /\ call.op = "create" /\ ~call.raised
    /\ Cardinality(DOMAIN rows) = 2
    /\ inst[call.self].id \in DOMAIN rows
    /\ rows[inst[call.self].id].name = inst[call.self].name
    /\ rows[inst[call.self].id].location = inst[call.self].location

\* C2: update() on an object whose row exists leaves that row holding the
\* object's current name and location, and changes no row with another id
\* and no object.
C2_UpdateWritesOwnRowOnly ==
    [][(call'.op = "update" /\ tableExists /\ OwnId \in DOMAIN rows) =>
          /\ ~call'.raised
          /\ DOMAIN rows' = DOMAIN rows
          /\ rows'[OwnId].name = inst[Self].name
          /\ rows'[OwnId].location = inst[Self].location
          /\ \A r \in DOMAIN rows \ {OwnId} : rows'[r] = rows[r]
          /\ inst' = inst]_vars

C2_Witness ==
    /\ call.op = "update" /\ ~call.raised
    /\ inst[call.self].id \in DOMAIN rows
    /\ rows[inst[call.self].id].name = inst[call.self].name
    /\ rows[inst[call.self].id].location = inst[call.self].location
    /\ \E r \in DOMAIN rows : /\ r # inst[call.self].id
                              /\ rows[r].name # inst[call.self].name

\* C3: delete() on an object whose row exists removes the row with the
\* object's id, leaves the object's id, name and location as they were, and
\* changes no row with another id.
C3_DeleteRemovesOwnRowOnly ==
    [][(call'.op = "delete" /\ tableExists /\ OwnId \in DOMAIN rows) =>
          /\ ~call'.raised
          /\ DOMAIN rows' = DOMAIN rows \ {OwnId}
          /\ \A r \in DOMAIN rows' : rows'[r] = rows[r]
          /\ inst' = inst]_vars

C3_Witness ==
    /\ call.op = "delete" /\ ~call.raised
    /\ inst[call.self].assigned
    /\ inst[call.self].id \notin DOMAIN rows
    /\ rows # NoRows

\* C4: drop_table() never raises and leaves the table absent; called with
\* the table already absent it changes nothing.
C4_DropTableIdempotent ==
    [][(call'.op = "drop_table") =>
          /\ ~call'.raised
          /\ ~tableExists'
          /\ rows' = NoRows
          /\ inst' = inst
          /\ (~tableExists =>
                 <<tableExists, rows, lastrowid, inst, lastCreatedId>>' =
                 <<tableExists, rows, lastrowid, inst, lastCreatedId>>)]_vars

C4_Witness ==
    /\ call.op = "drop_table" /\ ~call.raised
    /\ ~tableExists
    /\ \E i \in Insts : inst[i].assigned

\* C5: create_table() never raises and leaves the table present; it keeps
\* every row of a table that is already there and makes an empty table when
\* there is none.
C5_CreateTableIdempotent ==
    [][(call'.op = "create_table") =>
          /\ ~call'.raised
          /\ tableExists'
          /\ rows' = (IF tableExists THEN rows ELSE NoRows)
          /\ inst' = inst]_vars

C5_Witness ==
    /\ call.op = "create_table" /\ ~call.raised
    /\ tableExists
    /\ rows # NoRows

C7_IdStable ==
    [][\A i \in Insts : inst[i].assigned => inst'[i].id = inst[i].id]_vars

\* C8: a row carrying the id that save() assigned to an object is the row
\* that object's save() inserted.
C8_IdIdentifiesOwnRow ==
    \A i \in Insts :
        (inst[i].assigned /\ inst[i].id \in DOMAIN rows) =>
            rows[inst[i].id].by = i

\* C9: with the table absent, save() / create() raises and changes nothing:
\* the object's id, the rows and the absence of the table stay as they were.
C9_SaveWithoutTableRaises ==
    [][(IsSave /\ ~tableExists) =>
          /\ call'.raised
          /\ inst' = inst
          /\ rows' = rows
          /\ lastrowid' = lastrowid
          /\ ~tableExists']_vars

C9_Witness ==
    /\ call.op = "save" /\ call.raised
    /\ ~tableExists
    /\ inst[call.self].id = None
    /\ rows = NoRows

\* C10: with the table present and no row carrying the object's id (row
\* deleted, or id None), update() and delete() return normally and change
\* neither the rows nor the object.
C10_NoMatchingRowNoOp ==
    [][(call'.op \in {"update", "delete"} /\ tableExists
            /\ OwnId \notin DOMAIN rows) =>
          /\ ~call'.raised
          /\ rows' = rows
          /\ inst' = inst
          /\ tableExists']_vars

C10_Witness ==
    /\ call.op = "update" /\ ~call.raised
    /\ tableExists
    /\ inst[call.self].id \notin DOMAIN rows
    /\ rows # NoRows
====
